---- MODULE Spec2Model ----
(***************************************************************************)
(* Trace-driven cache simulator (src/src/lib.rs): trace-line parsing,      *)
(* address decoding, per-set replacement and the hit/miss/eviction         *)
(* accounting of hits_misses_evictions_calc.                               *)
(***************************************************************************)
EXTENDS Integers, Sequences, FiniteSets, TLC

\* ---- bounds of the model ------------------------------------------------
MaxLines == 3      \* trace lines replayed, any configuration
MaxSetLines == 4   \* trace lines replayed against a cache of one set
MaxAltLines == 4   \* trace lines of a replay alternating between two addresses
MaxAddr == 2       \* addresses 0..MaxAddr appear in trace lines
MaxE == 2          \* lines per set handed to Cache::new: 0..MaxE
MaxShift == 3      \* decoder inputs: shift counts within MaxShift of 0 and of Width
MaxDecAddr == 40   \* decoder inputs: addresses 0..MaxDecAddr

\* ---- program constants --------------------------------------------------
Width == 64        \* bits of u64, the type of address, tag and the mask

\* ---- characters and trace lines ------------------------------------------
\* A trace line is a sequence of one-character strings.
IsWhitespace(c) == c \in {" ", "\t"}

HexDigits == <<"0", "1", "2", "3", "4", "5", "6", "7",
               "8", "9", "a", "b", "c", "d", "e", "f">>

\* char::to_digit(16): 0..15, or -1 when c is no hexadecimal digit
ToDigit(c) ==
    IF \E i \in 1..16 : HexDigits[i] = c
    THEN (CHOOSE i \in 1..16 : HexDigits[i] = c) - 1
    ELSE IF c \in {"A", "B", "C", "D", "E", "F"}
         THEN CASE c = "A" -> 10 [] c = "B" -> 11 [] c = "C" -> 12
                [] c = "D" -> 13 [] c = "E" -> 14 [] c = "F" -> 15
         ELSE -1

\* format!("{:x}", n): the hexadecimal text of n, most significant digit first
RECURSIVE ToHex(_)
ToHex(n) ==
    IF n < 16 THEN <<HexDigits[n + 1]>>
    ELSE Append(ToHex(n \div 16), HexDigits[(n % 16) + 1])

\* str::split_whitespace: the maximal runs of non-whitespace, in order
RECURSIVE split_whitespace(_, _, _)
split_whitespace(line, word, parts) ==
    IF line = <<>>
    THEN IF word = <<>> THEN parts ELSE Append(parts, word)
    ELSE IF IsWhitespace(Head(line))
         THEN split_whitespace(Tail(line), <<>>,
                               IF word = <<>> THEN parts ELSE Append(parts, word))
         ELSE split_whitespace(Tail(line), Append(word, Head(line)), parts)

\* str::split(',') then [0]: the text before the first comma
RECURSIVE split_comma_first(_)
split_comma_first(str) ==
    IF str = <<>> THEN <<>>
    ELSE IF Head(str) = "," THEN <<>>
    ELSE <<Head(str)>> \o split_comma_first(Tail(str))

\* u64::from_str_radix(str, 16): the value, or -1 for Err (empty text,
\* a character that is no hexadecimal digit). One leading "+" is accepted.
RECURSIVE from_digits(_, _)
from_digits(str, acc) ==
    IF str = <<>> THEN acc
    ELSE IF ToDigit(Head(str)) < 0 THEN -1
    ELSE from_digits(Tail(str), acc * 16 + ToDigit(Head(str)))

from_str_radix(str) ==
    LET digits == IF str # <<>> /\ Head(str) = "+" THEN Tail(str) ELSE str
    IN  IF digits = <<>> THEN -1 ELSE from_digits(digits, 0)

\* parse_trace_line: kind "none" is None, "some" is Some((operation, address)),
\* "panic" is an index out of bounds or an unwrap of None/Err.
parse_trace_line(line) ==
    LET parts == split_whitespace(line, <<>>, <<>>)
        none == [kind |-> "none", operation |-> "", address |-> 0]
        panic == [kind |-> "panic", operation |-> "", address |-> 0]
    IN  IF line # <<>> /\ Head(line) = "I" THEN none
        ELSE IF Len(parts) < 1 THEN panic
        ELSE IF Len(parts) < 2 THEN panic
        ELSE IF from_str_radix(split_comma_first(parts[2])) < 0 THEN panic
        ELSE [kind |-> "some", operation |-> Head(parts[1]),
              address |-> from_str_radix(split_comma_first(parts[2]))]

\* ---- u64 arithmetic --------------------------------------------------------
\* x >> n for a shift count below Width
RECURSIVE Shr(_, _)
Shr(x, n) == IF n = 0 \/ x = 0 THEN x ELSE Shr(x \div 2, n - 1)

\* x & (2^k - 1): the k low bits of x
RECURSIVE LowBits(_, _)
LowBits(x, k) == IF k = 0 \/ x = 0 THEN 0 ELSE (x % 2) + 2 * LowBits(x \div 2, k - 1)

\* A shift by n >= Width overflows: with overflow checks (debug builds) it
\* panics, without them (release builds) the count is taken modulo Width.
\* -1 stands for the panic.
ShiftCount(n, overflow_checks) ==
    IF n < Width THEN n ELSE IF overflow_checks THEN -1 ELSE n % Width

\* ---- calculate_index_and_tag ----------------------------------------------
\* the set index taken from the address before the block offset is shifted out
calculate_index_and_tag_unshifted(address, s, b, overflow_checks) ==
    IF ShiftCount(b, overflow_checks) < 0 \/ ShiftCount(s, overflow_checks) < 0
          \/ ShiftCount(s + b, overflow_checks) < 0
    THEN [panic |-> TRUE, set_index |-> 0, tag |-> 0]
    ELSE [panic |-> FALSE,
          set_index |-> LowBits(address, ShiftCount(s, overflow_checks)),
          tag |-> Shr(address, ShiftCount(s + b, overflow_checks))]

\* The mask (1 << s) - 1 is kept as its number of low one-bits.
calculate_index_and_tag(address, s, b, overflow_checks) ==
    LET shift_b == ShiftCount(b, overflow_checks)
        mask_bits == ShiftCount(s, overflow_checks)
        shift_sb == ShiftCount(s + b, overflow_checks)
    IN  IF shift_b < 0 \/ mask_bits < 0 \/ shift_sb < 0
        THEN [panic |-> TRUE, set_index |-> 0, tag |-> 0]
        ELSE [panic |-> FALSE,
              set_index |-> LowBits(Shr(address, shift_b), mask_bits),
              tag |-> Shr(address, shift_sb)]

\* ---- CacheLine, CacheSet ---------------------------------------------------
\* is_hit without the test of the valid flag
is_hit_tag_only(self, tag) == self.tag = tag

is_hit(self, tag) == self.valid /\ self.tag = tag

\* a search that stops after the first line
find_hit_first_only(lines, tag) ==
    IF 0 \in DOMAIN lines /\ is_hit(lines[0], tag) THEN 0 ELSE -1

\* Iterator::find: the first line that hits, -1 for None
find_hit(lines, tag) ==
    IF \E i \in DOMAIN lines : is_hit(lines[i], tag)
    THEN CHOOSE i \in DOMAIN lines :
            /\ is_hit(lines[i], tag)
            /\ \A j \in DOMAIN lines : is_hit(lines[j], tag) => i <= j
    ELSE -1

\* the last of the lines with the least last_used
min_by_key_last(lines) ==
    IF DOMAIN lines = {} THEN -1
    ELSE CHOOSE i \in DOMAIN lines :
            /\ \A j \in DOMAIN lines : lines[i].last_used <= lines[j].last_used
            /\ \A j \in DOMAIN lines :
                  lines[j].last_used = lines[i].last_used => i >= j

\* Iterator::min_by_key(|line| line.last_used): the first of the lines with
\* the least last_used, -1 for None (no lines)
min_by_key(lines) ==
    IF DOMAIN lines = {} THEN -1
    ELSE CHOOSE i \in DOMAIN lines :
            /\ \A j \in DOMAIN lines : lines[i].last_used <= lines[j].last_used
            /\ \A j \in DOMAIN lines :
                  lines[j].last_used = lines[i].last_used => i <= j

\* the hit branch stamping every line of the set
hit_line_stamps_set(self, found, now) ==
    [unreachable |-> FALSE, hit |-> TRUE, eviction |-> FALSE,
     index |-> found, current_time |-> now,
     set |-> [lines |-> [j \in DOMAIN self.lines |->
                           [self.lines[j] EXCEPT !.last_used = now]]]]

\* the hit branch advancing the clock before it stamps the line
hit_line_advances_clock(self, found, now) ==
    [unreachable |-> FALSE, hit |-> TRUE, eviction |-> FALSE,
     index |-> found, current_time |-> now + 1,
     set |-> [lines |-> [self.lines EXCEPT ![found].last_used = now + 1]]]

\* CacheSet::access, the hit branch: the line found is stamped with the clock,
\* which does not advance
hit_line(self, found, now) ==
    [unreachable |-> FALSE, hit |-> TRUE, eviction |-> FALSE,
     index |-> found, current_time |-> now,
     set |-> [lines |-> [self.lines EXCEPT ![found].last_used = now]]]

\* the miss branch reading the valid flag after it has been set
replace_line_evict_after(self, least_used_line, tag, now) ==
    [unreachable |-> FALSE, hit |-> FALSE, eviction |-> TRUE,
     index |-> least_used_line, current_time |-> now,
     set |-> [lines |-> [self.lines EXCEPT
                           ![least_used_line] =
                               [valid |-> TRUE, tag |-> tag, last_used |-> now]]]]

\* the miss branch stamping the line with the clock as it was before the miss
replace_line_old_stamp(self, least_used_line, tag, now) ==
    [unreachable |-> FALSE, hit |-> FALSE,
     eviction |-> self.lines[least_used_line].valid,
     index |-> least_used_line, current_time |-> now,
     set |-> [lines |-> [self.lines EXCEPT
                           ![least_used_line] =
                               [valid |-> TRUE, tag |-> tag, last_used |-> now - 1]]]]

\* the miss branch leaving the valid flag as it was
replace_line_stays_invalid(self, least_used_line, tag, now) ==
    [unreachable |-> FALSE, hit |-> FALSE,
     eviction |-> self.lines[least_used_line].valid,
     index |-> least_used_line, current_time |-> now,
     set |-> [lines |-> [self.lines EXCEPT
                           ![least_used_line] =
                               [valid |-> @.valid, tag |-> tag, last_used |-> now]]]]

\* the miss branch leaving the tag of the line as it was
replace_line_keeps_tag(self, least_used_line, tag, now) ==
    [unreachable |-> FALSE, hit |-> FALSE,
     eviction |-> self.lines[least_used_line].valid,
     index |-> least_used_line, current_time |-> now,
     set |-> [lines |-> [self.lines EXCEPT
                           ![least_used_line] =
                               [valid |-> TRUE, tag |-> @.tag, last_used |-> now]]]]

\* CacheSet::access, the miss branch, the clock already advanced to now: the
\* least recently used line is overwritten, eviction is its valid flag before
replace_line(self, least_used_line, tag, now) ==
    [unreachable |-> FALSE, hit |-> FALSE,
     eviction |-> self.lines[least_used_line].valid,
     index |-> least_used_line, current_time |-> now,
     set |-> [lines |-> [self.lines EXCEPT
                           ![least_used_line] =
                               [valid |-> TRUE, tag |-> tag, last_used |-> now]]]]

\* CacheSet::access: the (hit, eviction) pair returned, the set and the clock
\* as the call leaves them, and the index of the line it wrote.
access(self, tag, now) ==
    IF find_hit(self.lines, tag) >= 0
    THEN hit_line(self, find_hit(self.lines, tag), now)
    ELSE IF min_by_key(self.lines) >= 0
    THEN replace_line(self, min_by_key(self.lines), tag, now + 1)
    ELSE [unreachable |-> TRUE, hit |-> FALSE, eviction |-> FALSE,
          index |-> -1, current_time |-> now + 1, set |-> self]

\* ---- Cache -------------------------------------------------------------------
\* a cache built with one set too few
Cache_new_one_set_short(s, e) ==
    [sets |-> [i \in 0..(2^s - 2) |->
                 [lines |-> [j \in 0..(e - 1) |->
                               [valid |-> FALSE, tag |-> 0, last_used |-> 0]]]],
     hits |-> 0, misses |-> 0, evictions |-> 0]

\* a cache whose lines start with a last_used that is not the least
Cache_new_stamped(s, e) ==
    [sets |-> [i \in 0..(2^s - 1) |->
                 [lines |-> [j \in 0..(e - 1) |->
                               [valid |-> FALSE, tag |-> 0, last_used |-> 2]]]],
     hits |-> 0, misses |-> 0, evictions |-> 0]

Cache_new(s, e) ==
    [sets |-> [i \in 0..(2^s - 1) |->
                 [lines |-> [j \in 0..(e - 1) |->
                               [valid |-> FALSE, tag |-> 0, last_used |-> 0]]]],
     hits |-> 0, misses |-> 0, evictions |-> 0]

\* ---- the trace lines of the model -------------------------------------------
OpChars == {"L", "S", "M", "I", "X"}

RECURSIVE Spaces(_)
Spaces(k) == IF k = 0 THEN <<>> ELSE <<" ">> \o Spaces(k - 1)

\* "<lead><op> <hex address>,4"
TraceLine(lead, op, address) ==
    Spaces(lead) \o <<op, " ">> \o ToHex(address) \o <<",", "4">>

\* an empty line, a line without an address, an address that is no number
Malformed == {<<>>, <<" ", "L">>, <<" ", "L", " ", "g", ",", "4">>}

TraceLines ==
    {TraceLine(lead, op, a) : lead \in 0..1, op \in OpChars, a \in 0..MaxAddr}
        \cup Malformed

\* the operation character of a line: its first character after the leading
\* whitespace, "" when there is none
RECURSIVE OpChar(_)
OpChar(line) ==
    IF line = <<>> THEN ""
    ELSE IF IsWhitespace(Head(line)) THEN OpChar(Tail(line)) ELSE Head(line)

\* parse_trace_line of every line of the model
Parsed == [line \in TraceLines |-> parse_trace_line(line)]

\* ---- hits_misses_evictions_calc ------------------------------------------------
\* the store of an 'M' operation counted as a hit only when the load hit
update_statistics_store_follows_load(this, operation, hit, eviction) ==
    [hits |-> this.hits + (IF hit THEN 1 ELSE 0)
                        + (IF hit /\ operation = "M" THEN 1 ELSE 0),
     misses |-> this.misses + (IF hit THEN 0 ELSE 1),
     evictions |-> this.evictions + (IF ~hit /\ eviction THEN 1 ELSE 0)]

\* a hit taking back one of the misses counted before
update_statistics_hit_refunds_miss(this, operation, hit, eviction) ==
    [hits |-> this.hits + (IF hit THEN 1 ELSE 0)
                        + (IF operation = "M" THEN 1 ELSE 0),
     misses |-> this.misses + (IF hit THEN -1 ELSE 1),
     evictions |-> this.evictions + (IF ~hit /\ eviction THEN 1 ELSE 0)]

\* an eviction counted for every miss, whatever the access reported
update_statistics_evicts_every_miss(this, operation, hit, eviction) ==
    [hits |-> this.hits + (IF hit THEN 1 ELSE 0)
                        + (IF operation = "M" THEN 1 ELSE 0),
     misses |-> this.misses + (IF hit THEN 0 ELSE 1),
     evictions |-> this.evictions + (IF ~hit THEN 1 ELSE 0)]

\* the statistics after one access: hits, or misses and evictions, by its
\* result, and one more hit for an 'M' operation
update_statistics(this, operation, hit, eviction) ==
    [hits |-> this.hits + (IF hit THEN 1 ELSE 0)
                        + (IF operation = "M" THEN 1 ELSE 0),
     misses |-> this.misses + (IF hit THEN 0 ELSE 1),
     evictions |-> this.evictions + (IF ~hit /\ eviction THEN 1 ELSE 0)]

\* the Cache after the access `result` to the set at set_index
after_access(this, operation, set_index, result) ==
    [sets |-> [this.sets EXCEPT ![set_index] = result.set],
     hits |-> update_statistics(this, operation, result.hit, result.eviction).hits,
     misses |-> update_statistics(this, operation, result.hit, result.eviction).misses,
     evictions |->
        update_statistics(this, operation, result.hit, result.eviction).evictions]

\* The body of the loop, for one line. kind "none": the line was ignored;
\* "access": one set access was made; "panic": the replay stopped in a panic
\* (parse_trace_line, a shift overflow, a set index out of range, unreachable!).
process_line(this, now, line, s, b, overflow_checks) ==
    LET parsed == Parsed[line]
        decoded == calculate_index_and_tag(parsed.address, s, b, overflow_checks)
        set_index == decoded.set_index
        result == access(this.sets[set_index], decoded.tag, now)
        idle == [kind |-> "none", cache |-> this, current_time |-> now,
                 operation |-> "", address |-> 0, set_index |-> 0, tag |-> 0,
                 hit |-> FALSE, eviction |-> FALSE, index |-> 0]
    IN  IF parsed.kind = "none" THEN idle
        ELSE IF parsed.kind = "panic" THEN [idle EXCEPT !.kind = "panic"]
        ELSE IF decoded.panic THEN [idle EXCEPT !.kind = "panic"]
        ELSE IF set_index \notin DOMAIN this.sets
             THEN [idle EXCEPT !.kind = "panic"]
        ELSE IF result.unreachable THEN [idle EXCEPT !.kind = "panic"]
        ELSE [kind |-> "access",
              cache |-> after_access(this, parsed.operation, set_index, result),
              current_time |-> result.current_time,
              operation |-> parsed.operation, address |-> parsed.address,
              set_index |-> set_index, tag |-> decoded.tag,
              hit |-> result.hit, eviction |-> result.eviction,
              index |-> result.index]

\* ---- state -----------------------------------------------------------------------
VARIABLES
    cfg,            \* new_s, new_e: arguments of Cache::new; s, b: of the replay;
                    \* lines: the length of the trace
    cache,          \* the Cache: sets, hits, misses, evictions
    current_time,   \* the logical clock of hits_misses_evictions_calc
    pc,             \* "run", or "panic" once the replay has panicked
    seen,           \* the number of lines replayed
    recency,        \* per set: the lines accessed so far, most recently accessed first
    last,           \* the line replayed last and what the replay made of it
    dec,            \* one call of calculate_index_and_tag: its inputs and result
    alt             \* the two addresses of an alternating replay, when on

vars == <<cfg, cache, current_time, pc, seen, recency, last, dec, alt>>

NoLine == [kind |-> "start", operation |-> "", address |-> 0,
           set_index |-> 0, tag |-> 0, hit |-> FALSE, eviction |-> FALSE,
           index |-> 0]

NoPair == [on |-> FALSE, a |-> 0, b |-> 0]

NoCall == [state |-> "idle", address |-> 0, s |-> 0, b |-> 0,
           overflow_checks |-> FALSE, panic |-> FALSE, set_index |-> 0, tag |-> 0]

\* set-index and block-offset bit counts of the configurations replayed
SetBits == 0..1
BlockBits == 0..1

Start ==
    /\ cache = Cache_new(cfg.new_s, cfg.new_e)
    /\ current_time = 0
    /\ pc = "run"
    /\ seen = 0
    /\ recency = [i \in DOMAIN cache.sets |-> <<>>]
    /\ last = NoLine

\* any trace against any configuration
Init ==
    /\ cfg \in [new_s : SetBits, new_e : 0..MaxE, s : SetBits, b : BlockBits,
                lines : {MaxLines}]
    /\ Start
    /\ dec = NoCall
    /\ alt = NoPair

\* a sequence without its occurrences of x
RECURSIVE Without(_, _)
Without(seq, x) ==
    IF seq = <<>> THEN <<>>
    ELSE IF Head(seq) = x THEN Without(Tail(seq), x)
    ELSE <<Head(seq)>> \o Without(Tail(seq), x)

\* the replay has not panicked and the trace has a next line
Running == pc = "run" /\ seen < cfg.lines

\* one iteration of the loop of hits_misses_evictions_calc
Step(line, kind) ==
    /\ \E overflow_checks \in BOOLEAN :
         \E r \in {process_line(cache, current_time, line, cfg.s, cfg.b,
                                overflow_checks)} :
             /\ r.kind = kind
             /\ cache' = r.cache
             /\ current_time' = r.current_time
             /\ pc' = IF kind = "panic" THEN "panic" ELSE "run"
             /\ seen' = seen + 1
             /\ recency' = IF kind = "access"
                           THEN [recency EXCEPT ![r.set_index] =
                                   <<r.index>> \o Without(@, r.index)]
                           ELSE recency
             /\ last' = [kind |-> kind, operation |-> r.operation,
                         address |-> r.address, set_index |-> r.set_index,
                         tag |-> r.tag, hit |-> r.hit, eviction |-> r.eviction,
                         index |-> r.index]
    /\ UNCHANGED <<cfg, dec, alt>>

\* the line is ignored: parse_trace_line returned None
Ignore ==
    /\ Running
    /\ \E line \in {l \in TraceLines : Parsed[l].kind = "none"} : Step(line, "none")

\* the line makes one access to a set
Access ==
    /\ Running
    /\ \E line \in {l \in TraceLines : Parsed[l].kind = "some"} : Step(line, "access")

\* the line ends the replay in a panic
Panic ==
    /\ Running
    /\ \E line \in {l \in TraceLines : Parsed[l].kind # "none"} : Step(line, "panic")

Next == Ignore \/ Access \/ Panic

Spec == Init /\ [][Next]_vars

\* ---- a longer trace against a cache of one set ------------------------------------
InitOneSet ==
    /\ cfg \in [new_s : {0}, new_e : 1..MaxE, s : {0}, b : {0}, lines : {MaxSetLines}]
    /\ Start
    /\ dec = NoCall
    /\ alt = NoPair

SpecOneSet == InitOneSet /\ [][Next]_vars

\* ---- two addresses accessed alternately, associativity 1 --------------------------
InitAlternate ==
    /\ cfg \in [new_s : SetBits, new_e : {1}, s : SetBits, b : BlockBits,
                lines : {MaxAltLines}]
    /\ Start
    /\ dec = NoCall
    /\ alt \in {p \in [on : {TRUE}, a : 0..MaxAddr, b : 0..MaxAddr] : p.a # p.b}

\* the address whose turn it is: a first, then b, then a again
Turn == IF seen % 2 = 0 THEN alt.a ELSE alt.b

AlternateAccess ==
    /\ alt.on /\ Running
    /\ \E op \in {"L", "S", "M"} : Step(TraceLine(1, op, Turn), "access")

AlternatePanic ==
    /\ alt.on /\ Running
    /\ \E op \in {"L", "S", "M"} : Step(TraceLine(1, op, Turn), "panic")

NextAlternate == AlternateAccess \/ AlternatePanic

SpecAlternate == InitAlternate /\ [][NextAlternate]_vars

\* ---- calculate_index_and_tag on its own -------------------------------------------
\* shift counts near 0 and near the width of u64
ShiftCounts == (0..MaxShift) \cup ((Width - MaxShift)..Width)

InitDecode ==
    /\ cfg = [new_s |-> 0, new_e |-> 0, s |-> 0, b |-> 0, lines |-> 0]
    /\ Start
    /\ alt = NoPair
    /\ dec \in [state : {"call"}, address : 0..MaxDecAddr, s : ShiftCounts,
                b : ShiftCounts, overflow_checks : BOOLEAN, panic : {FALSE},
                set_index : {0}, tag : {0}]

Decode ==
    /\ dec.state = "call"
    /\ \E r \in {calculate_index_and_tag(dec.address, dec.s, dec.b,
                                         dec.overflow_checks)} :
         dec' = [dec EXCEPT !.state = "done", !.panic = r.panic,
                            !.set_index = r.set_index, !.tag = r.tag]
    /\ UNCHANGED <<cfg, cache, current_time, pc, seen, recency, last, alt>>

NextDecode == Decode

SpecDecode == InitDecode /\ [][NextDecode]_vars

\* ==== properties ====================================================================
\* the step replayed a line that made an access
Accessed == seen' = seen + 1 /\ last'.kind = "access"

\* the set the step accessed, as it was before the access
TargetSet == cache.sets[last'.set_index]

AllValid(set) == \A j \in DOMAIN set.lines : set.lines[j].valid

\* the place of line x in a recency list (1 is the most recently accessed)
Position(seq, x) == CHOOSE k \in 1..Len(seq) : seq[k] = x

\* C1: replacement is per-set least-recently-used: a miss in a set of two or
\* more lines, all valid, overwrites the line whose most recent access (fill
\* or hit) is older than the most recent access of every other line of the set.
C1_LruReplacement ==
    [][ (Accessed /\ ~last'.hit /\ Cardinality(DOMAIN TargetSet.lines) >= 2
            /\ AllValid(TargetSet))
        => \A j \in DOMAIN TargetSet.lines \ {last'.index} :
              Position(recency[last'.set_index], last'.index)
                  > Position(recency[last'.set_index], j) ]_vars

\* the replay of a load of the address of the line just replayed, from the
\* state before that line
LoadInstead(overflow_checks) ==
    process_line(cache, current_time, TraceLine(1, "L", last'.address),
                 cfg.s, cfg.b, overflow_checks)

\* C2: an M entry makes one set access and adds one extra hit whether that
\* access hit or missed: it leaves the lines and the clock as an L entry of the
\* same address would, changes misses and evictions as that L entry would, and
\* leaves hits exactly one larger.
C2_ModifyIsLoadPlusHit ==
    [][ (Accessed /\ last'.operation = "M")
        => \A overflow_checks \in BOOLEAN :
              /\ LoadInstead(overflow_checks).kind = "access"
              /\ cache'.sets = LoadInstead(overflow_checks).cache.sets
              /\ current_time' = LoadInstead(overflow_checks).current_time
              /\ cache'.misses = LoadInstead(overflow_checks).cache.misses
              /\ cache'.evictions = LoadInstead(overflow_checks).cache.evictions
              /\ cache'.hits = LoadInstead(overflow_checks).cache.hits + 1 ]_vars

\* an M entry that missed has been replayed, and counted its extra hit
C2_ModifyMissed ==
    /\ last.kind = "access" /\ last.operation = "M" /\ ~last.hit
    /\ cache.hits >= 1 /\ cache.misses >= 1

\* what the line just replayed adds to the number of L/S/M entries processed
\* plus the number of M entries processed
EntryWeight ==
    IF last'.kind = "access" /\ last'.operation \in {"L", "S"} THEN 1
    ELSE IF last'.kind = "access" /\ last'.operation = "M" THEN 2
    ELSE 0

\* C3: a Load or Store entry makes one set access and changes the counters by
\* that access's outcome alone (a hit: hits + 1; a miss: misses + 1, and
\* evictions + 1 iff it evicted), so that hits + misses is always the number
\* of L/S/M entries processed plus the number of M entries processed.
C3_EntryAccounting ==
    [][ (seen' = seen + 1)
        => /\ (last'.kind = "access" /\ last'.operation \in {"L", "S"})
                => /\ cache'.hits = cache.hits + (IF last'.hit THEN 1 ELSE 0)
                   /\ cache'.misses = cache.misses + (IF last'.hit THEN 0 ELSE 1)
                   /\ cache'.evictions = cache.evictions
                        + (IF ~last'.hit /\ last'.eviction THEN 1 ELSE 0)
           /\ (cache'.hits + cache'.misses) - (cache.hits + cache.misses)
                = EntryWeight ]_vars

\* C4: an access is a hit iff a line of the set is valid and holds the tag (an
\* invalid line never hits, whatever its tag), and a hit reports no eviction.
C4_HitIffValidTag ==
    [][ Accessed
        => /\ last'.hit <=> \E j \in DOMAIN TargetSet.lines :
                               /\ TargetSet.lines[j].valid
                               /\ TargetSet.lines[j].tag = last'.tag
           /\ last'.hit => ~last'.eviction ]_vars

\* the first access of a replay asked for tag 0, the tag of the lines of a
\* fresh cache, and missed
C4_FirstTagZeroMisses ==
    seen = 1 /\ last.kind = "access" /\ last.tag = 0 /\ ~last.hit

\* C5: on a miss, eviction is reported iff the line overwritten was valid
\* immediately before.
C5_EvictionIffVictimValid ==
    [][ (Accessed /\ ~last'.hit)
        => /\ last'.eviction <=> TargetSet.lines[last'.index].valid
           /\ cache'.sets[last'.set_index].lines[last'.index].tag = last'.tag
           /\ \A j \in DOMAIN TargetSet.lines \ {last'.index} :
                 cache'.sets[last'.set_index].lines[j] = TargetSet.lines[j] ]_vars

\* a miss has overwritten a valid line
C5_MissEvicted ==
    last.kind = "access" /\ ~last.hit /\ last.eviction /\ cache.evictions >= 1

\* C6: a set of associativity E holds at most E valid lines, and no two valid
\* lines of a set hold the same tag.
C6_DistinctValidTags ==
    \A i \in DOMAIN cache.sets :
       /\ Cardinality({j \in DOMAIN cache.sets[i].lines :
                          cache.sets[i].lines[j].valid}) <= cfg.new_e
       /\ \A j, k \in DOMAIN cache.sets[i].lines :
             (j # k /\ cache.sets[i].lines[j].valid /\ cache.sets[i].lines[k].valid)
                => cache.sets[i].lines[j].tag # cache.sets[i].lines[k].tag

\* a set of two or more lines is full, and one of its tags has been hit
C6_FullSet ==
    /\ \E i \in DOMAIN cache.sets :
          Cardinality(DOMAIN cache.sets[i].lines) >= 2 /\ AllValid(cache.sets[i])
    /\ last.kind = "access" /\ last.hit

\* C7: a hit leaves the clock unchanged; a miss advances it by exactly 1, and
\* the line it fills is stamped with the advanced clock.
C7_ClockAdvancesOnMiss ==
    [][ Accessed
        => IF last'.hit
           THEN current_time' = current_time
           ELSE /\ current_time' = current_time + 1
                /\ cache'.sets[last'.set_index].lines[last'.index].last_used
                     = current_time + 1 ]_vars

\* two misses and a hit have been replayed, the last line a miss
C7_SecondMiss ==
    /\ seen = 3 /\ cache.misses = 2 /\ current_time = 2
    /\ last.kind = "access" /\ ~last.hit

\* the set and tag of the addresses of an alternating replay
AltA == calculate_index_and_tag(alt.a, cfg.s, cfg.b, FALSE)
AltB == calculate_index_and_tag(alt.b, cfg.s, cfg.b, FALSE)

\* C8, as stated: with associativity 1 and two distinct addresses of the same
\* set accessed alternately, every access after the first misses and evicts.
C8_AlternateDistinctAddresses ==
    (alt.on /\ cfg.new_e = 1 /\ AltA.set_index = AltB.set_index
        /\ last.kind = "access" /\ seen >= 2)
    => (~last.hit /\ last.eviction)

\* C8, amended: with associativity 1 and two addresses of the same set and of
\* different tags accessed alternately, every access after the first misses
\* and evicts.
C8_AlternateDistinctTags ==
    (alt.on /\ cfg.new_e = 1 /\ AltA.set_index = AltB.set_index
        /\ AltA.tag # AltB.tag /\ last.kind = "access" /\ seen >= 2)
    => (~last.hit /\ last.eviction)

\* a, b and a again have been accessed, a and b of one set and of different
\* tags, and the third access evicted
C8_ThirdAccessEvicted ==
    /\ alt.on /\ cfg.new_e = 1 /\ AltA.set_index = AltB.set_index
    /\ AltA.tag # AltB.tag
    /\ seen = 3 /\ last.kind = "access" /\ last.address = alt.a /\ last.eviction
    /\ cache.evictions = 2

\* x div 2^n and x mod 2^n, for the addresses of the model (all below 2^30)
DivPow2(x, n) == IF n > 30 THEN 0 ELSE x \div (2^n)
ModPow2(x, n) == IF n > 30 THEN x ELSE x % (2^n)

\* the result of calculate_index_and_tag is the set index and the tag of C9
Decoded ==
    /\ ~dec.panic
    /\ dec.set_index = ModPow2(DivPow2(dec.address, dec.b), dec.s)
    /\ dec.tag = DivPow2(dec.address, dec.s + dec.b)
    /\ dec.s <= 30 => /\ dec.set_index < 2^(dec.s)
                      /\ dec.tag * 2^(dec.s) + dec.set_index
                           = DivPow2(dec.address, dec.b)
    /\ dec.s > 30 => dec.tag = 0 /\ dec.set_index = DivPow2(dec.address, dec.b)
    /\ dec.s = 0 => dec.set_index = 0 /\ dec.tag = DivPow2(dec.address, dec.b)

\* C9, as stated: for s + b within the address width (s + b <= 64),
\* set_index = (address >> b) mod 2^s and tag = address >> (s + b), so
\* set_index < 2^s and tag * 2^s + set_index = address >> b; for s = 0 the
\* set index is 0 and the tag is address >> b.
C9_DecodeWithinWidth ==
    (dec.state = "done" /\ dec.s + dec.b <= Width) => Decoded

\* C9, amended: the same for s + b below the address width (s + b < 64).
C9_DecodeBelowWidth ==
    (dec.state = "done" /\ dec.s + dec.b < Width) => Decoded

\* an address has been decoded into a set index and a tag, both not 0
C9_IndexAndTag ==
    /\ dec.state = "done" /\ dec.s >= 1 /\ dec.b >= 1 /\ dec.s + dec.b < Width
    /\ dec.set_index > 0 /\ dec.tag > 0

\* C10: an instruction-fetch line (operation character I) contributes nothing:
\* it leaves hits, misses, evictions, the clock and every cache line unchanged.
C10_FetchContributesNothing ==
    [][ (seen' = seen + 1 /\ (last'.kind = "none" \/ last'.operation = "I"))
        => (cache' = cache /\ current_time' = current_time) ]_vars

\* C11: hits, misses and evictions never decrease over a replay: no line
\* replayed, whatever becomes of it (ignored, an access, a panic), lowers any
\* of the three counters.
C11_CountersNeverDecrease ==
    [][ /\ cache'.hits >= cache.hits
        /\ cache'.misses >= cache.misses
        /\ cache'.evictions >= cache.evictions ]_vars

\* a miss, an eviction and a hit have been counted, the last line a hit
C11_AllCountersRaised ==
    /\ cache.hits >= 1 /\ cache.misses >= 1 /\ cache.evictions >= 1
    /\ last.kind = "access" /\ last.hit

\* C12: on every miss the line overwritten has the least last_used of all
\* lines of the target set, and of the lines sharing that least value it is
\* the one of lowest index.
C12_VictimIsFirstMinimum ==
    [][ (Accessed /\ ~last'.hit)
        => \A j \in DOMAIN TargetSet.lines :
              /\ TargetSet.lines[last'.index].last_used
                    <= TargetSet.lines[j].last_used
              /\ TargetSet.lines[j].last_used
                    = TargetSet.lines[last'.index].last_used
                 => last'.index <= j ]_vars

\* the first miss of a set of two lines took line 0 of two equal lines, and
\* the second miss took line 1, by then the only line of least last_used
C12_SecondLineFilled ==
    /\ seen = 2 /\ cfg.new_e = 2 /\ cache.misses = 2 /\ cache.evictions = 0
    /\ last.kind = "access" /\ ~last.hit /\ last.index = 1
    /\ cache.sets[last.set_index].lines[0].last_used = 1

\* the valid lines of a set
ValidLines(set) == {j \in DOMAIN set.lines : set.lines[j].valid}

\* C13: last_used orders the lines of a set strictly by recency: after any
\* access the line it touched is the one line of largest last_used in its set,
\* and no two valid lines of a set ever share a last_used value.
C13_StrictRecencyOrder ==
    /\ last.kind = "access"
          => \A j \in DOMAIN cache.sets[last.set_index].lines \ {last.index} :
                cache.sets[last.set_index].lines[j].last_used
                    < cache.sets[last.set_index].lines[last.index].last_used
    /\ \A i \in DOMAIN cache.sets :
          \A j, k \in ValidLines(cache.sets[i]) :
             j # k => cache.sets[i].lines[j].last_used
                         # cache.sets[i].lines[k].last_used

\* C14: in a replay on a fresh cache a miss evicts only when the target set is
\* full: while the set has an invalid line the line overwritten is an invalid
\* one and no eviction is reported; eviction is reported exactly when every
\* line of the set was valid before the miss.
C14_EvictionIffSetFull ==
    [][ (Accessed /\ ~last'.hit)
        => /\ ~AllValid(TargetSet)
                => ~TargetSet.lines[last'.index].valid /\ ~last'.eviction
           /\ last'.eviction <=> AllValid(TargetSet)
           /\ cache'.evictions = cache.evictions
                + (IF AllValid(TargetSet) THEN 1 ELSE 0) ]_vars

\* two misses have filled a set of two lines without an eviction and the third
\* miss, into the full set, evicted
C14_FullSetEvicted ==
    /\ seen = 3 /\ cfg.new_e = 2 /\ cache.misses = 3 /\ cache.evictions = 1
    /\ last.kind = "access" /\ ~last.hit /\ last.eviction
    /\ AllValid(cache.sets[last.set_index])

\* the addresses of the block (set index, tag), among those of the trace lines
BlockAddresses(set_index, tag) ==
    {a \in 0..MaxAddr :
        /\ calculate_index_and_tag(a, cfg.s, cfg.b, FALSE).set_index = set_index
        /\ calculate_index_and_tag(a, cfg.s, cfg.b, FALSE).tag = tag}

\* C15: immediately after any access, hit or miss, for a (set, tag) the set
\* holds a valid line with that tag, so that an access to the same block (any
\* address of the same set index and tag) made directly afterwards is a hit.
C15_RepeatedAccessHits ==
    last.kind = "access"
    => /\ \E j \in ValidLines(cache.sets[last.set_index]) :
             cache.sets[last.set_index].lines[j].tag = last.tag
       /\ \A a \in BlockAddresses(last.set_index, last.tag), op \in {"L", "S", "M"} :
             \E r \in {process_line(cache, current_time, TraceLine(1, op, a),
                                    cfg.s, cfg.b, FALSE)} :
                /\ r.kind = "access" /\ r.hit /\ ~r.eviction
                /\ r.set_index = last.set_index /\ r.tag = last.tag

\* an address of a block of two bytes missed and address 1, of the same
\* block, was accessed directly afterwards and hit
C15_SecondByteHit ==
    /\ seen = 2 /\ cfg.b = 1 /\ cache.misses = 1 /\ cache.hits = 1
    /\ last.kind = "access" /\ last.hit /\ last.address = 1
    /\ \E j \in ValidLines(cache.sets[last.set_index]) :
          /\ cache.sets[last.set_index].lines[j].tag = last.tag
          /\ cache.sets[last.set_index].lines[j].last_used = 1

\* C16: every access changes at most one cache line of the whole cache: a hit
\* changes only the last_used of the line hit (its valid flag and tag, and all
\* other lines of all sets, stay); a miss rewrites only the line chosen in the
\* target set; no line ever goes from valid to invalid and no set ever
\* changes its number of lines.
C16_OneLineChanged ==
    [][ /\ DOMAIN cache'.sets = DOMAIN cache.sets
        /\ \A i \in DOMAIN cache.sets :
              /\ DOMAIN cache'.sets[i].lines = DOMAIN cache.sets[i].lines
              /\ \A j \in DOMAIN cache.sets[i].lines :
                    cache.sets[i].lines[j].valid => cache'.sets[i].lines[j].valid
        /\ Accessed
              => /\ \A i \in DOMAIN cache.sets :
                       \A j \in DOMAIN cache.sets[i].lines :
                          (i # last'.set_index \/ j # last'.index)
                             => cache'.sets[i].lines[j] = cache.sets[i].lines[j]
                 /\ last'.hit
                       => /\ cache'.sets[last'.set_index].lines[last'.index].valid
                               = TargetSet.lines[last'.index].valid
                          /\ cache'.sets[last'.set_index].lines[last'.index].tag
                               = TargetSet.lines[last'.index].tag
        /\ (seen' = seen + 1 /\ last'.kind # "access")
              => cache'.sets = cache.sets ]_vars

\* with two sets of two lines, both lines of a set valid, one of them has been
\* hit and the other kept its last_used
C16_HitBesideValidLine ==
    /\ seen = 3 /\ cfg.new_s = 1 /\ cfg.new_e = 2
    /\ last.kind = "access" /\ last.hit /\ AllValid(cache.sets[last.set_index])
    /\ \E j \in DOMAIN cache.sets[last.set_index].lines :
          cache.sets[last.set_index].lines[j].last_used < current_time

\* C17: for a cache built by Cache::new(S, e) with e >= 1 and replayed with
\* s <= S set-index bits, every access indexes an existing set (the decoded
\* set index is below 2^S) and the search for the line to overwrite always
\* finds one: no line that parses ends in a panic, whatever its address.
C17_AccessNeverPanics ==
    (cfg.new_e >= 1 /\ cfg.s <= cfg.new_s)
    => /\ DOMAIN cache.sets = 0..(2^(cfg.new_s) - 1)
       /\ \A address \in 0..MaxDecAddr :
             /\ calculate_index_and_tag(address, cfg.s, cfg.b, FALSE).set_index
                   < 2^(cfg.new_s)
             /\ calculate_index_and_tag(address, cfg.s, cfg.b, FALSE).set_index
                   \in DOMAIN cache.sets
       /\ \A i \in DOMAIN cache.sets :
             /\ min_by_key(cache.sets[i].lines) >= 0
             /\ \A tag \in 0..MaxAddr :
                   ~access(cache.sets[i], tag, current_time).unreachable
       /\ \A line \in {l \in TraceLines : Parsed[l].kind = "some"} :
             \A overflow_checks \in BOOLEAN :
                process_line(cache, current_time, line, cfg.s, cfg.b,
                             overflow_checks).kind = "access"

\* a whole trace has been replayed with as many set-index bits as the cache
\* was built with, every line a miss, the last one in the set of highest index
C17_HighestSetAccessed ==
    /\ cfg.new_e >= 1 /\ cfg.new_s = 1 /\ cfg.s = cfg.new_s
    /\ seen = cfg.lines /\ pc = "run" /\ cache.misses = seen
    /\ last.kind = "access" /\ last.set_index = 2^(cfg.new_s) - 1

\* the operation characters that trace lines are specified to carry
KnownOps == {"L", "S", "M", "I"}

\* C18: a trace line whose operation character is outside {L, S, M, I} is a
\* hard failure of the interpretation of the line: it never makes a cache
\* access and never changes hits, misses, evictions or a cache line.
C18_UnknownOperationFails ==
    [][ (seen' = seen + 1 /\ last'.operation \notin KnownOps \cup {""})
        => (last'.kind = "panic" /\ cache' = cache) ]_vars

\* C19: leading whitespace before the operation character has no effect: for
\* every operation character of {L, S, M, I} and every address, the line with
\* leading whitespace and the line without it are interpreted alike (both
\* ignored or both not, the same operation, the same address) and change the
\* cache, the counters and the clock alike.
C19_LeadingWhitespaceIgnored ==
    \A op \in KnownOps, address \in 0..MaxAddr :
       /\ Parsed[TraceLine(1, op, address)] = Parsed[TraceLine(0, op, address)]
       /\ \A overflow_checks \in BOOLEAN :
             process_line(cache, current_time, TraceLine(1, op, address),
                          cfg.s, cfg.b, overflow_checks)
               = process_line(cache, current_time, TraceLine(0, op, address),
                              cfg.s, cfg.b, overflow_checks)

\* C20: between the lines of a replay on a fresh cache the logical clock equals
\* the misses counter, the last_used of every line is at most the clock, every
\* invalid line has last_used = 0 and every valid line has last_used >= 1.
C20_ClockEqualsMisses ==
    /\ pc = "run" => current_time = cache.misses
    /\ \A i \in DOMAIN cache.sets :
          \A j \in DOMAIN cache.sets[i].lines :
             /\ cache.sets[i].lines[j].last_used <= current_time
             /\ ~cache.sets[i].lines[j].valid
                   => cache.sets[i].lines[j].last_used = 0
             /\ cache.sets[i].lines[j].valid
                   => cache.sets[i].lines[j].last_used >= 1

\* two misses and a hit have been replayed, the clock is at 2, and the cache
\* holds a line never filled beside a line stamped with the clock
C20_ValidBesideInvalid ==
    /\ pc = "run" /\ seen = 3 /\ cache.misses = 2 /\ cache.hits >= 1
    /\ current_time = 2
    /\ \E i \in DOMAIN cache.sets :
          \E j, k \in DOMAIN cache.sets[i].lines :
             /\ ~cache.sets[i].lines[j].valid
             /\ cache.sets[i].lines[k].valid
             /\ cache.sets[i].lines[k].last_used = current_time

\* the number of valid lines of the sets of index below n
RECURSIVE ValidLinesBelow(_)
ValidLinesBelow(n) ==
    IF n = 0 THEN 0
    ELSE Cardinality(ValidLines(cache.sets[n - 1])) + ValidLinesBelow(n - 1)

\* the number of valid lines of the whole cache
TotalValidLines == ValidLinesBelow(Cardinality(DOMAIN cache.sets))

\* C21: at every point of a replay on a fresh cache the number of valid lines
\* of all sets together equals misses - evictions; hence evictions <= misses
\* and misses - evictions <= E * (number of sets).
C21_ValidLinesAreUnevictedMisses ==
    /\ TotalValidLines = cache.misses - cache.evictions
    /\ cache.evictions <= cache.misses
    /\ cache.misses - cache.evictions
          <= cfg.new_e * Cardinality(DOMAIN cache.sets)

\* a cache of two sets of one line is full after three misses, one of which
\* evicted
C21_FullCacheAfterEviction ==
    /\ cfg.new_s = 1 /\ cfg.new_e = 1
    /\ cache.misses = 3 /\ cache.evictions = 1 /\ TotalValidLines = 2
    /\ \A i \in DOMAIN cache.sets : AllValid(cache.sets[i])

====
